---- MODULE Spec2Model ----
(***************************************************************************)
(* Model of apps/desktop/src-tauri/src/main.rs: the native shell of the    *)
(* desktop application.  main() configures the host builder (three         *)
(* plugins, two commands, one setup hook) and blocks in run(); the host    *)
(* dispatches the two directory-lookup commands while its event loop runs. *)
(*                                                                         *)
(* A path is a sequence of byte classes: "a" an ASCII byte, "L" the lead   *)
(* byte of a two-byte UTF-8 sequence, "C" a continuation byte.  A text is  *)
(* a sequence of characters: "a", "e2" (the character a valid L C pair     *)
(* encodes) and "FFFD" (U+FFFD, the replacement character).                *)
(***************************************************************************)
EXTENDS Naturals, Sequences, FiniteSets

VARIABLES
    os,            \* what the OS/host reports for each directory (read only)
    mainPc,        \* position of main() in its builder chain
    plugins,       \* plugins registered on the builder
    commands,      \* commands registered with invoke_handler
    setupHook,     \* TRUE once the setup closure is attached
    host,          \* phase of the host inside run()
    hookRuns,      \* number of times the setup closure has run
    hookResult,    \* what the setup closure returned to the host
    log,           \* lines printed on stdout
    loop,          \* host event loop: notstarted, running, closed
    startAttempts, \* number of calls of run()
    runResult,     \* what run() returned to main
    proc,          \* process: running, panicked, exited
    panicMsg,      \* message of the panic, if any
    inv            \* command invocations in flight, one record per slot

vars == <<os, mainPc, plugins, commands, setupHook, host, hookRuns,
          hookResult, log, loop, startAttempts, runResult, proc, panicMsg,
          inv>>

\* ---------------------------------------------------------------- bounds
MaxPathLen == 2
MaxInv == 2

\* ------------------------------------------------------------ the host's data
Bytes == {"a", "L", "C"}
Errors == {"UnknownPath", "Io"}
Dirs == {"app_data", "document"}
Slots == 1..MaxInv

Paths == UNION {[1..n -> Bytes] : n \in 1..MaxPathLen}

OkPath(p) == [ok |-> TRUE, path |-> p, err |-> "none"]
ErrOf(e) == [ok |-> FALSE, path |-> <<>>, err |-> e]
Outcomes == {OkPath(p) : p \in Paths} \cup {ErrOf(e) : e \in Errors}

AllPlugins == {"fs", "shell", "dialog"}
AllCommands == {"get_app_data_dir", "get_document_dir"}

\* ------------------------------------------------------------ conversions
RECURSIVE ToStringDropInvalid(_)
ToStringDropInvalid(p) ==
    IF p = <<>> THEN <<>>
    ELSE IF Head(p) = "a" THEN <<"a">> \o ToStringDropInvalid(Tail(p))
    ELSE IF Head(p) = "L" /\ Len(p) >= 2 /\ p[2] = "C"
         THEN <<"e2">> \o ToStringDropInvalid(Tail(Tail(p)))
    ELSE ToStringDropInvalid(Tail(p))

\* p.to_string_lossy(): every maximal invalid part becomes one U+FFFD
RECURSIVE ToStringLossy(_)
ToStringLossy(p) ==
    IF p = <<>> THEN <<>>
    ELSE IF Head(p) = "a" THEN <<"a">> \o ToStringLossy(Tail(p))
    ELSE IF Head(p) = "L" /\ Len(p) >= 2 /\ p[2] = "C"
         THEN <<"e2">> \o ToStringLossy(Tail(Tail(p)))
    ELSE <<"FFFD">> \o ToStringLossy(Tail(p))

RECURSIVE DebugFmtBody(_)
DebugFmtBody(p) ==
    IF p = <<>> THEN <<>>
    ELSE IF Head(p) = "a" THEN <<"a">> \o DebugFmtBody(Tail(p))
    ELSE IF Head(p) = "L" /\ Len(p) >= 2 /\ p[2] = "C"
         THEN <<"e2">> \o DebugFmtBody(Tail(Tail(p)))
    ELSE <<"\\x", Head(p)>> \o DebugFmtBody(Tail(p))

DebugFmt(p) == <<"\"">> \o DebugFmtBody(p) \o <<"\"">>

ErrorToString(e) ==
    IF e = "UnknownPath" THEN <<"unknown path">> ELSE <<"io error">>

Ok(text) == [ok |-> TRUE, val |-> text]
Err(text) == [ok |-> FALSE, val |-> text]
NoResult == [ok |-> FALSE, val |-> <<>>]
NoOutcome == ErrOf("none")

NoRun == [state |-> "none", err |-> "none"]
RunOk == [state |-> "Ok", err |-> "none"]
RunErr(e) == [state |-> "Err", err |-> e]
StartErrors == {"Runtime", "Setup"}

\* ------------------------------------------------------------ the commands
LookupDirSwapped(cmd) ==
    IF cmd = "get_app_data_dir" THEN "document" ELSE "app_data"

LookupDir(cmd) ==
    IF cmd = "get_app_data_dir" THEN "app_data" ELSE "document"

MapResultDebug(looked) ==
    IF looked.ok THEN Ok(ToStringLossy(looked.path))
    ELSE Err(<<looked.err>>)

MapResult(looked) ==
    IF looked.ok THEN Ok(ToStringLossy(looked.path))
    ELSE Err(ErrorToString(looked.err))

Idle == [pc |-> "idle", cmd |-> "none", looked |-> NoOutcome,
         lookups |-> 0, result |-> NoResult]

\* the process at the entry of main()
Started ==
    /\ mainPc = "builder"
    /\ plugins = {}
    /\ commands = {}
    /\ setupHook = FALSE
    /\ host = "none"
    /\ hookRuns = 0
    /\ hookResult = "none"
    /\ log = <<>>
    /\ loop = "notstarted"
    /\ startAttempts = 0
    /\ runResult = NoRun
    /\ proc = "running"
    /\ panicMsg = <<>>
    /\ inv = [i \in Slots |-> Idle]

Init ==
    /\ os \in [Dirs -> Outcomes]
    /\ Started

\* the same process where every directory is an error or a one-byte path:
\* what the process does over its lifetime does not depend on longer paths
ShortOutcomes ==
    {OkPath(<<b>>) : b \in Bytes} \cup {ErrOf(e) : e \in Errors}

InitShort ==
    /\ os \in [Dirs -> ShortOutcomes]
    /\ Started

Alive == proc = "running"

\* ------------------------------------------------------------ main()
\* tauri::Builder::default()
BuilderDefault ==
    /\ Alive /\ mainPc = "builder"
    /\ mainPc' = "plugin_fs"
    /\ UNCHANGED <<os, plugins, commands, setupHook, host, hookRuns,
                   hookResult, log, loop, startAttempts, runResult, proc,
                   panicMsg, inv>>

\* .plugin(tauri_plugin_fs::init())
PluginFs ==
    /\ Alive /\ mainPc = "plugin_fs"
    /\ plugins' = plugins \cup {"fs"}
    /\ mainPc' = "plugin_shell"
    /\ UNCHANGED <<os, commands, setupHook, host, hookRuns, hookResult, log,
                   loop, startAttempts, runResult, proc, panicMsg, inv>>

\* .plugin(tauri_plugin_shell::init())
PluginShell ==
    /\ Alive /\ mainPc = "plugin_shell"
    /\ plugins' = plugins \cup {"shell"}
    /\ mainPc' = "plugin_dialog"
    /\ UNCHANGED <<os, commands, setupHook, host, hookRuns, hookResult, log,
                   loop, startAttempts, runResult, proc, panicMsg, inv>>

PluginDialogSkipped ==
    /\ Alive /\ mainPc = "plugin_dialog"
    /\ mainPc' = "invoke_handler"
    /\ UNCHANGED <<os, plugins, commands, setupHook, host, hookRuns,
                   hookResult, log, loop, startAttempts, runResult, proc,
                   panicMsg, inv>>

\* .plugin(tauri_plugin_dialog::init())
PluginDialog ==
    /\ Alive /\ mainPc = "plugin_dialog"
    /\ plugins' = plugins \cup {"dialog"}
    /\ mainPc' = "invoke_handler"
    /\ UNCHANGED <<os, commands, setupHook, host, hookRuns, hookResult, log,
                   loop, startAttempts, runResult, proc, panicMsg, inv>>

\* .invoke_handler(tauri::generate_handler![get_app_data_dir, get_document_dir])
InvokeHandler ==
    /\ Alive /\ mainPc = "invoke_handler"
    /\ commands' = {"get_app_data_dir", "get_document_dir"}
    /\ mainPc' = "setup"
    /\ UNCHANGED <<os, plugins, setupHook, host, hookRuns, hookResult, log,
                   loop, startAttempts, runResult, proc, panicMsg, inv>>

\* .setup(|app| { ... }): attaches the closure, does not run it
Setup ==
    /\ Alive /\ mainPc = "setup"
    /\ setupHook' = TRUE
    /\ mainPc' = "run"
    /\ UNCHANGED <<os, plugins, commands, host, hookRuns, hookResult, log,
                   loop, startAttempts, runResult, proc, panicMsg, inv>>

\* .run(tauri::generate_context!()): main blocks inside the host
Run ==
    /\ Alive /\ mainPc = "run"
    /\ startAttempts' = startAttempts + 1
    /\ host' = "building"
    /\ mainPc' = "in_run"
    /\ UNCHANGED <<os, plugins, commands, setupHook, hookRuns, hookResult,
                   log, loop, runResult, proc, panicMsg, inv>>

\* the host cannot start: run() returns Err(e) to main
HostBuildFails ==
    /\ Alive /\ host = "building"
    /\ \E e \in StartErrors : runResult' = RunErr(e)
    /\ host' = "failed"
    /\ mainPc' = "expect"
    /\ UNCHANGED <<os, plugins, commands, setupHook, hookRuns, hookResult,
                   log, loop, startAttempts, proc, panicMsg, inv>>

\* the host has built the application and turns to the setup hook
HostBuildOk ==
    /\ Alive /\ host = "building"
    /\ host' = IF setupHook THEN "setup" ELSE "setup_done"
    /\ UNCHANGED <<os, mainPc, plugins, commands, setupHook, hookRuns,
                   hookResult, log, loop, startAttempts, runResult, proc,
                   panicMsg, inv>>

SetupHookPropagates ==
    /\ Alive /\ host = "setup"
    /\ hookRuns' = hookRuns + 1
    /\ log' = IF os["app_data"].ok
              THEN Append(log, <<"App data directory: ">>
                               \o DebugFmt(os["app_data"].path))
              ELSE log
    /\ hookResult' = IF os["app_data"].ok THEN "Ok" ELSE "Err"
    /\ host' = "setup_done"
    /\ UNCHANGED <<os, mainPc, plugins, commands, setupHook, loop,
                   startAttempts, runResult, proc, panicMsg, inv>>

\* the setup closure: if let Ok(app_data) = ... { println!(...) }  Ok(())
SetupHook ==
    /\ Alive /\ host = "setup"
    /\ hookRuns' = hookRuns + 1
    /\ log' = IF os["app_data"].ok
              THEN Append(log, <<"App data directory: ">>
                               \o DebugFmt(os["app_data"].path))
              ELSE log
    /\ hookResult' = "Ok"
    /\ host' = "setup_done"
    /\ UNCHANGED <<os, mainPc, plugins, commands, setupHook, loop,
                   startAttempts, runResult, proc, panicMsg, inv>>

\* the host acts on the hook's result: an Err is a startup failure
HostStartLoop ==
    /\ Alive /\ host = "setup_done"
    /\ IF hookResult = "Err"
       THEN /\ runResult' = RunErr("Setup")
            /\ host' = "failed"
            /\ mainPc' = "expect"
            /\ loop' = loop
       ELSE /\ loop' = "running"
            /\ host' = "loop"
            /\ UNCHANGED <<runResult, mainPc>>
    /\ UNCHANGED <<os, plugins, commands, setupHook, hookRuns, hookResult,
                   log, startAttempts, proc, panicMsg, inv>>

\* the user closes the GUI
CloseGui ==
    /\ Alive /\ loop = "running"
    /\ loop' = "closed"
    /\ UNCHANGED <<os, mainPc, plugins, commands, setupHook, host, hookRuns,
                   hookResult, log, startAttempts, runResult, proc, panicMsg,
                   inv>>

\* the event loop has ended: run() returns Ok(()) to main
HostRunReturns ==
    /\ Alive /\ host = "loop" /\ loop = "closed"
    /\ runResult' = RunOk
    /\ host' = "returned"
    /\ mainPc' = "expect"
    /\ UNCHANGED <<os, plugins, commands, setupHook, hookRuns, hookResult,
                   log, loop, startAttempts, proc, panicMsg, inv>>

ExpectIgnoresError ==
    /\ Alive /\ mainPc = "expect"
    /\ mainPc' = "done"
    /\ proc' = "exited"
    /\ UNCHANGED <<os, plugins, commands, setupHook, host, hookRuns,
                   hookResult, log, loop, startAttempts, runResult, panicMsg,
                   inv>>

\* .expect("error while running tauri application"); then main returns
Expect ==
    /\ Alive /\ mainPc = "expect"
    /\ IF runResult.state = "Err"
       THEN /\ proc' = "panicked"
            /\ mainPc' = "panicked"
            /\ panicMsg' = <<"error while running tauri application",
                             runResult.err>>
       ELSE /\ proc' = "exited"
            /\ mainPc' = "done"
            /\ panicMsg' = panicMsg
    /\ UNCHANGED <<os, plugins, commands, setupHook, host, hookRuns,
                   hookResult, log, loop, startAttempts, runResult, inv>>

\* ------------------------------------------------------------ command calls
\* the frontend invokes a registered command; the host dispatches it
Invoke(i, cmd) ==
    /\ Alive /\ loop = "running"
    /\ cmd \in commands
    /\ inv[i].pc = "idle"
    /\ inv' = [inv EXCEPT ![i] = [Idle EXCEPT !.pc = "called", !.cmd = cmd]]
    /\ UNCHANGED <<os, mainPc, plugins, commands, setupHook, host, hookRuns,
                   hookResult, log, loop, startAttempts, runResult, proc,
                   panicMsg>>

\* app.path().app_data_dir() / app.path().document_dir()
CmdLookup(i) ==
    /\ Alive /\ inv[i].pc = "called"
    /\ inv' = [inv EXCEPT ![i].looked = os[LookupDir(inv[i].cmd)],
                          ![i].lookups = inv[i].lookups + 1,
                          ![i].pc = "looked"]
    /\ UNCHANGED <<os, mainPc, plugins, commands, setupHook, host, hookRuns,
                   hookResult, log, loop, startAttempts, runResult, proc,
                   panicMsg>>

CmdReturnLogs(i) ==
    /\ Alive /\ inv[i].pc = "looked"
    /\ inv' = [inv EXCEPT ![i].result = MapResult(inv[i].looked),
                          ![i].pc = "returned"]
    /\ log' = Append(log, <<inv[i].cmd>>)
    /\ UNCHANGED <<os, mainPc, plugins, commands, setupHook, host, hookRuns,
                   hookResult, loop, startAttempts, runResult, proc,
                   panicMsg>>

CmdReturnShared(i) ==
    /\ Alive /\ inv[i].pc = "looked"
    /\ LET others == {j \in Slots : j # i /\ inv[j].pc = "looked"}
           src == IF others = {} THEN i ELSE CHOOSE j \in others : TRUE
       IN inv' = [inv EXCEPT ![i].result = MapResult(inv[src].looked),
                             ![i].pc = "returned"]
    /\ UNCHANGED <<os, mainPc, plugins, commands, setupHook, host, hookRuns,
                   hookResult, log, loop, startAttempts, runResult, proc,
                   panicMsg>>

CmdReturnRetry(i) ==
    /\ Alive /\ inv[i].pc = "looked"
    /\ IF ~inv[i].looked.ok /\ inv[i].lookups < 2
       THEN inv' = [inv EXCEPT ![i].pc = "called"]
       ELSE inv' = [inv EXCEPT ![i].result = MapResult(inv[i].looked),
                               ![i].pc = "returned"]
    /\ UNCHANGED <<os, mainPc, plugins, commands, setupHook, host, hookRuns,
                   hookResult, log, loop, startAttempts, runResult, proc,
                   panicMsg>>

CmdReturnUnwrap(i) ==
    /\ Alive /\ inv[i].pc = "looked"
    /\ IF inv[i].looked.ok
       THEN /\ inv' = [inv EXCEPT ![i].result = MapResult(inv[i].looked),
                                  ![i].pc = "returned"]
            /\ UNCHANGED <<proc, panicMsg>>
       ELSE /\ proc' = "panicked"
            /\ panicMsg' = <<"called Result::unwrap() on an Err value",
                             inv[i].looked.err>>
            /\ inv' = inv
    /\ UNCHANGED <<os, mainPc, plugins, commands, setupHook, host, hookRuns,
                   hookResult, log, loop, startAttempts, runResult>>

\* .map(|p| p.to_string_lossy().to_string()).map_err(|e| e.to_string())
CmdReturn(i) ==
    /\ Alive /\ inv[i].pc = "looked"
    /\ inv' = [inv EXCEPT ![i].result = MapResult(inv[i].looked),
                          ![i].pc = "returned"]
    /\ UNCHANGED <<os, mainPc, plugins, commands, setupHook, host, hookRuns,
                   hookResult, log, loop, startAttempts, runResult, proc,
                   panicMsg>>

\* the host hands the result to the frontend and the slot is free again
Deliver(i) ==
    /\ Alive /\ inv[i].pc = "returned"
    /\ inv' = [inv EXCEPT ![i] = Idle]
    /\ UNCHANGED <<os, mainPc, plugins, commands, setupHook, host, hookRuns,
                   hookResult, log, loop, startAttempts, runResult, proc,
                   panicMsg>>

MainStep ==
    \/ BuilderDefault
    \/ PluginFs
    \/ PluginShell
    \/ PluginDialog
    \/ InvokeHandler
    \/ Setup
    \/ Run
    \/ Expect

HostStep ==
    \/ HostBuildFails
    \/ HostBuildOk
    \/ SetupHook
    \/ HostStartLoop
    \/ HostRunReturns

CmdStep ==
    \/ \E i \in Slots : CmdLookup(i)
    \/ \E i \in Slots : CmdReturn(i)
    \/ \E i \in Slots : Deliver(i)

Next ==
    \/ BuilderDefault
    \/ PluginFs
    \/ PluginShell
    \/ PluginDialog
    \/ InvokeHandler
    \/ Setup
    \/ Run
    \/ HostBuildFails
    \/ HostBuildOk
    \/ SetupHook
    \/ HostStartLoop
    \/ CloseGui
    \/ HostRunReturns
    \/ Expect
    \/ \E i \in Slots, cmd \in AllCommands : Invoke(i, cmd)
    \/ \E i \in Slots : CmdLookup(i)
    \/ \E i \in Slots : CmdReturn(i)
    \/ \E i \in Slots : Deliver(i)

Spec == Init /\ [][Next]_vars

\* main and the host always make progress; the user and the frontend need not
FairSpec ==
    /\ InitShort /\ [][Next]_vars
    /\ WF_vars(MainStep) /\ WF_vars(HostStep) /\ WF_vars(CmdStep)

TypeOK ==
    /\ os \in [Dirs -> Outcomes]
    /\ plugins \subseteq AllPlugins
    /\ commands \subseteq AllCommands
    /\ proc \in {"running", "panicked", "exited"}
    /\ loop \in {"notstarted", "running", "closed"}
    /\ \A i \in Slots : inv[i].pc \in {"idle", "called", "looked", "returned"}

\* ------------------------------------------------------------ properties
Returned(i) == inv[i].pc = "returned"

\* the OS directory each command is about, as the interface names it
DirOf(cmd) ==
    IF cmd = "get_app_data_dir" THEN os["app_data"]
    ELSE IF cmd = "get_document_dir" THEN os["document"]
    ELSE NoOutcome

\* a path is representable as text when it is well-formed UTF-8
Representable(p) ==
    \A k \in 1..Len(p) :
        /\ p[k] = "L" => (k < Len(p) /\ p[k + 1] = "C")
        /\ p[k] = "C" => (k > 1 /\ p[k - 1] = "L")

\* the bytes of a text ("U3" is the lead byte of the three-byte U+FFFD)
RECURSIVE Encode(_)
Encode(t) ==
    IF t = <<>> THEN <<>>
    ELSE (IF Head(t) = "a" THEN <<"a">>
          ELSE IF Head(t) = "e2" THEN <<"L", "C">>
          ELSE <<"U3", "C", "C">>) \o Encode(Tail(t))

CmdAdvances(i) ==
    \/ inv[i].pc = "called" /\ inv'[i].pc = "looked"
    \/ inv[i].pc = "looked" /\ inv'[i] # inv[i]

\* C1: when the directory lookup fails, the command returns Err holding the
\* textual form of the lookup error; the process does not panic or stop, the
\* event loop is left as it was and further invocations can be dispatched.
C1_FailureIsErrorString ==
    /\ [](\A i \in Slots :
            (Returned(i) /\ ~DirOf(inv[i].cmd).ok) =>
                /\ ~inv[i].result.ok
                /\ inv[i].result.val = ErrorToString(DirOf(inv[i].cmd).err)
                /\ inv[i].result.val \in {<<"unknown path">>, <<"io error">>}
                /\ proc # "panicked")
    /\ [][\A i \in Slots :
            (CmdAdvances(i) /\ ~DirOf(inv[i].cmd).ok) =>
                proc' = proc /\ loop' = loop /\ panicMsg' = panicMsg]_vars
    /\ [](\A i, j \in Slots :
            (/\ Returned(i) /\ ~DirOf(inv[i].cmd).ok
             /\ loop = "running" /\ inv[j].pc = "idle") =>
                \A cmd \in AllCommands : ENABLED Invoke(j, cmd))

C1_Witness ==
    \E i \in Slots :
        /\ Returned(i) /\ ~inv[i].looked.ok /\ ~inv[i].result.ok
        /\ loop = "running" /\ proc = "running"
        /\ \E j \in Slots : j # i /\ inv[j].pc = "called"

\* C2: when the lookup succeeds, get_app_data_dir returns Ok with the lossy
\* text of the application-data path and get_document_dir returns Ok with the
\* lossy text of the documents path (never the other one); a representable
\* path comes back unchanged.
C2_SuccessIsLossyPath ==
    \A i \in Slots :
        (Returned(i) /\ DirOf(inv[i].cmd).ok) =>
            /\ inv[i].result.ok
            /\ inv[i].cmd = "get_app_data_dir" =>
                   inv[i].result.val = ToStringLossy(os["app_data"].path)
            /\ inv[i].cmd = "get_document_dir" =>
                   inv[i].result.val = ToStringLossy(os["document"].path)
            /\ Representable(DirOf(inv[i].cmd).path) =>
                   Encode(inv[i].result.val) = DirOf(inv[i].cmd).path

C2_Witness ==
    /\ os["app_data"].ok /\ os["document"].ok
    /\ os["app_data"].path # os["document"].path
    /\ Representable(os["app_data"].path)
    /\ ~Representable(os["document"].path)
    /\ \E i, j \in Slots :
        /\ Returned(i) /\ inv[i].cmd = "get_app_data_dir"
        /\ Returned(j) /\ inv[j].cmd = "get_document_dir"
        /\ inv[i].result.ok /\ inv[j].result.ok

\* C3: once run() has reported an error, the process never serves a command,
\* never has a running event loop and never exits normally; the only step it
\* can take is the panic with the diagnostic message.
C3_StartFailureIsFatal ==
    /\ [](runResult.state = "Err" =>
            /\ loop = "notstarted"
            /\ \A i \in Slots : inv[i].pc = "idle"
            /\ proc # "exited"
            /\ mainPc \in {"expect", "panicked"})
    /\ [][runResult.state = "Err" =>
            /\ proc' = "panicked"
            /\ panicMsg'[1] = "error while running tauri application"]_vars
    /\ [](proc = "panicked" => runResult.state = "Err")

C3_Witness ==
    /\ runResult.state = "Err"
    /\ proc = "panicked"
    /\ panicMsg = <<"error while running tauri application", "Runtime">>

\* C4: the three plugins and the two commands are registered before run() is
\* called, hence before the event loop starts and before any invocation.
C4_RegisteredBeforeLoop ==
    (\/ startAttempts > 0
     \/ host # "none"
     \/ loop # "notstarted"
     \/ \E i \in Slots : inv[i].pc # "idle") =>
        /\ plugins = {"fs", "shell", "dialog"}
        /\ commands = {"get_app_data_dir", "get_document_dir"}

C4_Witness ==
    /\ loop = "running"
    /\ \E i \in Slots : inv[i].pc = "called"
    /\ plugins = {"fs", "shell", "dialog"}

\* C5: the setup hook runs at most once and always returns Ok: it prints one
\* line exactly when its lookup succeeded and none when it failed, a failed
\* lookup is no startup failure, and the event loop starts after the hook.
C5_HookAlwaysSucceeds ==
    /\ [](/\ hookRuns <= 1
          /\ hookRuns = 1 => hookResult = "Ok"
          /\ Len(log) = (IF hookRuns = 1 /\ os["app_data"].ok THEN 1 ELSE 0)
          /\ (hookRuns = 1 /\ ~os["app_data"].ok) =>
                 (log = <<>> /\ runResult.state # "Err" /\ proc # "panicked")
          /\ loop # "notstarted" => hookRuns = 1)
    /\ [][(hookRuns = 1 /\ loop = "notstarted") => loop' = "running"]_vars

C5_Witness ==
    /\ hookRuns = 1 /\ ~os["app_data"].ok
    /\ log = <<>> /\ loop = "running"

C5_WitnessLogged ==
    /\ hookRuns = 1 /\ os["app_data"].ok
    /\ Len(log) = 1 /\ loop = "running"

\* C6: when the directory is resolvable the command returns Ok with a
\* non-empty string, whatever the path is (no path is rejected).
C6_NonEmptyOnSuccess ==
    \A i \in Slots :
        (Returned(i) /\ DirOf(inv[i].cmd).ok) =>
            /\ inv[i].result.ok
            /\ Len(inv[i].result.val) >= 1

C6_Witness ==
    \E i \in Slots :
        /\ Returned(i) /\ inv[i].result.ok
        /\ \A k \in 1..Len(inv[i].looked.path) : inv[i].looked.path[k] = "C"
        /\ \A k \in 1..Len(inv[i].result.val) : inv[i].result.val[k] = "FFFD"

\* C7: a step of a command, successful or not, leaves the registered
\* plugins and commands, the event loop, the log, the process and what the OS
\* reports unchanged.
C7_CommandsHaveNoSideEffects ==
    [][(\E i \in Slots : CmdAdvances(i)) =>
          UNCHANGED <<plugins, commands, loop, log, os, setupHook, host,
                      hookRuns, proc, mainPc, runResult>>]_vars

C7_Witness ==
    /\ \E i \in Slots : Returned(i) /\ inv[i].result.ok
    /\ \E i \in Slots : Returned(i) /\ ~inv[i].result.ok
    /\ Len(log) = 1 /\ loop = "running"

\* C8: under every interleaving the result of an invocation is the one it
\* would return alone, decided by its own lookup; a step of one invocation
\* changes no other invocation.
C8_InvocationsIndependent ==
    /\ [](\A i \in Slots :
            Returned(i) =>
                /\ inv[i].looked = DirOf(inv[i].cmd)
                /\ inv[i].result.ok = inv[i].looked.ok
                /\ inv[i].result.val =
                       (IF inv[i].looked.ok
                        THEN ToStringLossy(inv[i].looked.path)
                        ELSE ErrorToString(inv[i].looked.err)))
    /\ [][\A i \in Slots :
            CmdAdvances(i) => \A j \in Slots : j # i => inv'[j] = inv[j]]_vars

C8_Witness ==
    \E i, j \in Slots :
        /\ i # j
        /\ Returned(i) /\ ~inv[i].result.ok
        /\ inv[j].pc = "looked" /\ inv[j].looked.ok
        /\ inv[i].cmd # inv[j].cmd

\* C9: an invocation makes exactly one lookup and returns right after it,
\* and the process calls run() at most once, also after a startup failure.
C9_NothingRetried ==
    /\ [](/\ \A i \in Slots :
               /\ inv[i].pc \in {"idle", "called"} => inv[i].lookups = 0
               /\ inv[i].pc \in {"looked", "returned"} => inv[i].lookups = 1
          /\ startAttempts <= 1
          /\ runResult.state # "none" => startAttempts = 1)
    /\ [][\A i \in Slots :
            (inv[i].pc = "looked" /\ inv'[i] # inv[i]) =>
                inv'[i].pc = "returned"]_vars
    /\ [][runResult.state = "Err" => startAttempts' = startAttempts]_vars

C9_Witness ==
    /\ \E i \in Slots :
        Returned(i) /\ ~inv[i].looked.ok /\ inv[i].lookups = 1
    /\ startAttempts = 1

C9_WitnessStartFailed ==
    /\ proc = "panicked" /\ startAttempts = 1

====
